---- MODULE Spec2Model ----
(***************************************************************************)
(* Model of bls, the ambient-light driven backlight controller             *)
(* (src/main.go): poller.poll, poller.setBlight and the start-up code of   *)
(* main, together with the two device files they read and write.           *)
(*                                                                         *)
(* The control loop is cut at its blocking calls (file reads, file writes  *)
(* and sleeps); between two such calls another actor may write the         *)
(* brightness file.                                                        *)
(***************************************************************************)
EXTENDS Integers, Sequences, FiniteSets, TLC

VARIABLES
    p,            \* the poller struct (configuration)
    env,          \* the machine: max_brightness, values the sensor and other writers produce
    backlight,    \* content of the brightness file
    pc,           \* position of the process
    inlights,     \* poll: sample window
    inIndex,      \* poll: next slot of the window (0-based)
    blight,       \* poll: brightness read in this cycle
    inlight,      \* poll: value computed from the window
    nblight,      \* poll: target brightness
    curr,         \* setBlight: parameter curr (mutated by the ramp)
    set,          \* setBlight: parameter set
    dir,          \* setBlight: branch taken ("dec" or "inc")
    from,         \* history: value of curr when setBlight was entered
    ramped,       \* history: levels written by the current/last setBlight call
    last,         \* history: the last step taken
    failed,       \* history: some file operation of the process has failed
    cycle,        \* history: number of iterations of the outer loop started (saturating)
    cyclePushes,  \* history: samples pushed since the outer iteration started
    hist,         \* history: the last (at most probes) samples pushed, oldest first
    pauses,       \* history: gradWait sleeps of the current/last setBlight call
    clobbered     \* history: the last ramp write replaced a level the process had not written or read

ctlvars == <<p, pc, inlights, inIndex, blight, inlight, nblight, curr, set, dir,
             from, ramped, failed, cycle, cyclePushes, hist, pauses, clobbered>>

vars == <<p, env, backlight, pc, inlights, inIndex, blight, inlight, nblight,
          curr, set, dir, from, ramped, last, failed, cycle, cyclePushes, hist,
          pauses, clobbered>>

----------------------------------------------------------------------------
(* Bounds of the model *)

DeviceMax == 1
MaxProbes == 1
MaxGrad == 1
MaxSens == 1
MaxRatio == 1
MaxSampleK == 1
MaxCycle == 2
MaxExt == 1

----------------------------------------------------------------------------
(* Program constants *)

granularity == 100

----------------------------------------------------------------------------
(* Helpers *)

Abs(x) == IF x < 0 THEN -x ELSE x

Min2(a, b) == IF a < b THEN a ELSE b

Max2(a, b) == IF a > b THEN a ELSE b

Clamp(x, lo, hi) == IF x < lo THEN lo ELSE IF x > hi THEN hi ELSE x

RECURSIVE SumSeq(_)
SumSeq(s) == IF s = <<>> THEN 0 ELSE Head(s) + SumSeq(Tail(s))

Zeros(n) == [i \in 1..n |-> 0]

----------------------------------------------------------------------------
(* Pure parts of poll *)

\* lines 89-97: n stays 0, so the division is never done
WindowValue(w) == SumSeq(w)

\* line 70
MaxIn(ratio) == ratio * granularity

\* lines 98-101
Percent(a, ratio) ==
    LET q == (a * granularity) \div MaxIn(ratio)
    IN  IF q > granularity THEN granularity ELSE q

\* variants of the mapping used to test the properties below
TargetSpan(a, min, max, ratio) ==
    LET n == (Percent(a, ratio) * (max - min)) \div granularity + min
    IN  IF n > max THEN max ELSE n

TargetNoCeil(a, min, max, ratio) ==
    (Percent(a, ratio) * max) \div granularity + min

TargetNoFloor(a, min, max, ratio) ==
    LET n == (Percent(a, ratio) * max) \div granularity
    IN  IF n > max THEN max ELSE n

TargetWrap(a, min, max, ratio) ==
    LET n == (Percent(a, ratio) * max) \div granularity + min
    IN  IF n > max THEN min ELSE n

\* lines 102-105
Target(a, min, max, ratio) ==
    LET n == (Percent(a, ratio) * max) \div granularity + min
    IN  IF n > max THEN max ELSE n

\* lines 106-109
Diff(n, b) == IF n - b < 0 THEN -(n - b) ELSE n - b

\* variant: the test for a level below min is missing
ShouldApplyNoFloor(b, n, sens, min) == Diff(n, b) >= sens

\* variant: the floor test is off by one
ShouldApplyLowFloor(b, n, sens, min) == Diff(n, b) >= sens \/ b < min - 1

\* line 112
ShouldApply(b, n, sens, min) == Diff(n, b) >= sens \/ b < min

\* variant: dryrun is ignored
DoSetAlways(dryrun) == TRUE

\* line 114
DoSet(dryrun) == ~dryrun

\* variant: the inner loop is left after every sample
WindowWrappedAlways(idx) == TRUE

\* line 85
WindowWrapped(idx) == idx = 0

\* variant: the level is not clamped to the target
RampLevelNoClamp(c, s, grad, d) ==
    IF d = "dec" THEN c - grad ELSE c + grad

\* variant: the decrease uses twice the step
RampLevelFastDown(c, s, grad, d) ==
    IF d = "dec"
    THEN (IF c - 2 * grad < s THEN s ELSE c - 2 * grad)
    ELSE (IF c + grad > s THEN s ELSE c + grad)

\* variant: every step is one unit, whatever grad is
RampLevelUnit(c, s, grad, d) ==
    IF d = "dec" THEN c - 1 ELSE c + 1

\* lines 130-133 and 143-146
RampLevel(c, s, grad, d) ==
    IF d = "dec"
    THEN (IF c - grad < s THEN s ELSE c - grad)
    ELSE (IF c + grad > s THEN s ELSE c + grad)

\* variant: the loop tests include the target itself
RampMoreInclusive(c, s, d) == IF d = "dec" THEN c >= s ELSE c <= s

\* lines 129 and 142
RampMore(c, s, d) == IF d = "dec" THEN c > s ELSE c < s

\* variant: the ramp continues from the level found in the device
RampFromDevice(c, dev) == dev

\* lines 130 and 143: the ramp continues from its own variable curr
RampFrom(c, dev) == c

\* variant: the brightness is read in the first iteration only
BlightReadOnce(dev) == IF cycle = 0 THEN dev ELSE blight

\* line 74: the brightness is read from the device in every iteration
BlightRead(dev) == dev

\* variant: the index stays where it is
NextIndexStuck(idx, n) == idx

\* line 84
NextIndex(idx, n) == (idx + 1) % n

\* variant: after setting the backlight the loop falls through to the sleep
AfterSetSleep == "sleep"

\* line 119: continue
AfterSet == "readBlight"

\* lines 76, 81, 116, 196: elog.Fatal ends the process
ReadErrPc == "fatal"

\* variant: a failed write is tried again
WriteErrPcRetry == "ramp"

WriteErrPc == "fatal"

----------------------------------------------------------------------------
(* Initial states *)

\* sensor values spread from 0 to the full scale of the largest ratio
Samples == {(k * MaxIn(MaxRatio)) \div MaxSampleK : k \in 0..MaxSampleK}

\* max is left to be autodetected (0) or set one below the device's maximum
SmallPollers ==
    { [probes |-> pr, min |-> mn, max |-> mx, grad |-> g, sens |-> s,
       ratio |-> r, dryrun |-> d] :
        pr \in 1..MaxProbes, mn \in 0..DeviceMax, mx \in {0, DeviceMax - 1},
        g \in 1..MaxGrad, s \in 0..MaxSens, r \in 1..MaxRatio, d \in BOOLEAN }

\* line 192: max = 0 means "read it from the device"
ResolvedMax(flagMax, devMax) == IF flagMax = 0 THEN devMax ELSE flagMax

SmallWorlds ==
    { [p |-> q, deviceMax |-> DeviceMax, samples |-> Samples, levels |-> 0..DeviceMax] :
        q \in { r \in SmallPollers : r.min <= ResolvedMax(r.max, DeviceMax) } }

\* the configuration of the documented end-to-end scenarios
ScenarioPoller(d) ==
    [probes |-> 1, min |-> 40, max |-> 100, grad |-> 5, sens |-> 2, ratio |-> 60,
     dryrun |-> d]

ScenarioWorlds ==
    { [p |-> ScenarioPoller(d), deviceMax |-> 100, samples |-> {0, 1800, 3000, 6000},
       levels |-> {30, 39, 40, 70}] : d \in BOOLEAN }

\* the window of scenario D: the mapping is pinned to one level, so that only
\* the window moves
WindowPoller ==
    [probes |-> 4, min |-> 1, max |-> 1, grad |-> 1, sens |-> 1, ratio |-> 1,
     dryrun |-> FALSE]

WindowWorlds ==
    { [p |-> WindowPoller, deviceMax |-> 1, samples |-> {10, 20, 30, 40, 50},
       levels |-> {1}] }

Worlds == SmallWorlds \cup ScenarioWorlds \cup WindowWorlds

\* the state at process start in world w, the sensor producing the values
\* smp and other actors writing the brightness at most ext times
InitWith(w, smp, ext) ==
        /\ p = w.p
        /\ env = [deviceMax |-> w.deviceMax, samples |-> smp, levels |-> w.levels,
                  ext |-> ext, extTotal |-> ext]
        /\ backlight \in w.levels
        /\ pc = "main"
        /\ inlights = <<>>
        /\ inIndex = 0
        /\ blight = 0
        /\ inlight = 0
        /\ nblight = 0
        /\ curr = 0
        /\ set = 0
        /\ dir = "inc"
        /\ from = 0
        /\ ramped = <<>>
        /\ last = "init"
        /\ failed = FALSE
        /\ cycle = 0
        /\ cyclePushes = 0
        /\ hist = <<>>
        /\ pauses = 0
        /\ clobbered = FALSE

Init == \E w \in Worlds : InitWith(w, w.samples, 0)

----------------------------------------------------------------------------
(* Steps of the process *)

\* main, lines 192-199, and poll, lines 67-70
MainStep(ok) ==
    /\ pc = "main"
    /\  IF p.max # 0
        THEN /\ pc' = "readBlight"
             /\ inlights' = Zeros(p.probes)
             /\ UNCHANGED <<p, failed>>
        ELSE IF ok
        THEN /\ p' = [p EXCEPT !.max = env.deviceMax]
             /\ pc' = "readBlight"
             /\ inlights' = Zeros(p.probes)
             /\ UNCHANGED failed
        ELSE /\ pc' = ReadErrPc
             /\ failed' = TRUE
             /\ UNCHANGED <<p, inlights>>
    /\ last' = "main"
    /\ UNCHANGED <<env, backlight, inIndex, blight, inlight, nblight, curr, set,
                   dir, from, ramped, cycle, cyclePushes, hist, pauses, clobbered>>

Main == \E ok \in BOOLEAN : MainStep(ok)

\* poll, lines 72-77
ReadBlightStep(ok) ==
    /\ pc = "readBlight"
    /\  IF ok
        THEN /\ blight' = BlightRead(backlight)
             /\ pc' = "readLight"
             /\ cycle' = Min2(cycle + 1, MaxCycle)
             /\ cyclePushes' = 0
             /\ UNCHANGED failed
        ELSE /\ pc' = ReadErrPc
             /\ failed' = TRUE
             /\ UNCHANGED <<blight, cycle, cyclePushes>>
    /\ last' = "readBlight"
    /\ UNCHANGED <<p, env, backlight, inlights, inIndex, inlight, nblight, curr,
                   set, dir, from, ramped, hist, pauses, clobbered>>

ReadBlight == \E ok \in BOOLEAN : ReadBlightStep(ok)

\* poll, lines 78-88
ReadLightStep(ok, v) ==
    /\ pc = "readLight"
    /\  IF ok
        THEN /\ inlights' = [inlights EXCEPT ![inIndex + 1] = v]
             /\ inIndex' = NextIndex(inIndex, p.probes)
             /\ cyclePushes' = cyclePushes + 1
             /\ hist' = IF Len(hist) < p.probes THEN Append(hist, v)
                        ELSE Append(Tail(hist), v)
             /\ pc' = IF WindowWrapped(NextIndex(inIndex, p.probes)) THEN "eval" ELSE "readLight"
             /\ UNCHANGED failed
        ELSE /\ pc' = ReadErrPc
             /\ failed' = TRUE
             /\ UNCHANGED <<inlights, inIndex, cyclePushes, hist>>
    /\ last' = "readLight"
    /\ UNCHANGED <<p, env, backlight, blight, inlight, nblight, curr, set, dir,
                   from, ramped, cycle, pauses, clobbered>>

ReadLight == \E ok \in BOOLEAN, v \in env.samples : ReadLightStep(ok, v)

\* poll, lines 89-120, up to the first write or sleep
Evaluate ==
    /\ pc = "eval"
    /\ LET a == WindowValue(inlights)
           n == Target(a, p.min, p.max, p.ratio)
       IN  /\ inlight' = a
           /\ nblight' = n
           /\ IF ShouldApply(blight, n, p.sens, p.min)
              THEN IF DoSet(p.dryrun)
                   THEN \* setBlight(blight, nblight), lines 126-129 and 142
                        /\ curr' = blight
                        /\ set' = n
                        /\ from' = blight
                        /\ dir' = IF blight > n THEN "dec" ELSE "inc"
                        /\ ramped' = <<>>
                        /\ pauses' = 0
                        /\ clobbered' = FALSE
                        /\ pc' = IF RampMore(blight, n, IF blight > n THEN "dec" ELSE "inc")
                                 THEN "ramp" ELSE AfterSet
                   ELSE /\ pc' = AfterSet
                        /\ UNCHANGED <<curr, set, from, dir, ramped, pauses, clobbered>>
              ELSE /\ pc' = "sleep"
                   /\ UNCHANGED <<curr, set, from, dir, ramped, pauses, clobbered>>
    /\ last' = "eval"
    /\ UNCHANGED <<p, env, backlight, inlights, inIndex, blight, failed, cycle,
                   cyclePushes, hist>>

\* setBlight, lines 130-136 and 143-149: one level is computed and written
RampWriteStep(ok) ==
    /\ pc = "ramp"
    /\  LET c == RampLevel(RampFrom(curr, backlight), set, p.grad, dir)
        IN  /\ curr' = c
            /\ IF ok
               THEN /\ backlight' = c
                    /\ ramped' = Append(ramped, c)
                    /\ clobbered' = (backlight # curr)
                    /\ pc' = "rampSleep"
                    /\ UNCHANGED failed
               ELSE /\ pc' = WriteErrPc
                    /\ failed' = TRUE
                    /\ UNCHANGED <<backlight, ramped, clobbered>>
    /\ last' = "write"
    /\ UNCHANGED <<p, env, inlights, inIndex, blight, inlight, nblight, set, dir,
                   from, cycle, cyclePushes, hist, pauses>>

RampWrite == \E ok \in BOOLEAN : RampWriteStep(ok)

\* setBlight, lines 137 and 150, then the loop test; on return poll continues (line 119)
RampSleep ==
    /\ pc = "rampSleep"
    /\ pc' = IF RampMore(curr, set, dir) THEN "ramp" ELSE AfterSet
    /\ pauses' = pauses + 1
    /\ last' = "rampSleep"
    /\ UNCHANGED <<p, env, backlight, inlights, inIndex, blight, inlight, nblight,
                   curr, set, dir, from, ramped, failed, cycle, cyclePushes, hist,
                   clobbered>>

\* poll, line 121
PollSleep ==
    /\ pc = "sleep"
    /\ pc' = "readBlight"
    /\ last' = "pollSleep"
    /\ UNCHANGED <<p, env, backlight, inlights, inIndex, blight, inlight, nblight,
                   curr, set, dir, from, ramped, failed, cycle, cyclePushes, hist,
                   pauses, clobbered>>

\* another actor (a hotkey, the user) writes the brightness file
External ==
    /\ \E v \in env.levels :
        /\ v # backlight
        /\ backlight' = v
    /\ last' = "ext"
    /\ UNCHANGED <<env>>
    /\ UNCHANGED ctlvars

Next ==
    \/ Main
    \/ ReadBlight
    \/ ReadLight
    \/ Evaluate
    \/ RampWrite
    \/ RampSleep
    \/ PollSleep
    \/ External

Spec == Init /\ [][Next]_vars

----------------------------------------------------------------------------
(* The process on a machine whose files never fail, where other actors      *)
(* write the brightness at most env.extTotal times and the sensor produces  *)
(* either any of the world's values or always the same one.  The process    *)
(* is the only goroutine and its sleeps end, so it always takes its next    *)
(* step.                                                                    *)

CalmWorlds == SmallWorlds \cup ScenarioWorlds

\* either the light varies and nobody else writes, or the light is constant
\* and others write at most MaxExt times
InitCalm ==
    \E w \in CalmWorlds :
        \/ InitWith(w, w.samples, 0)
        \/ \E v \in w.samples, ext \in 0..MaxExt : InitWith(w, {v}, ext)

MainOk == MainStep(TRUE)

ReadBlightOk == ReadBlightStep(TRUE)

ReadLightOk == \E v \in env.samples : ReadLightStep(TRUE, v)

RampWriteOk == RampWriteStep(TRUE)

\* another actor writes the brightness file, a bounded number of times
ExternalSome ==
    /\ env.ext > 0
    /\ \E v \in env.levels :
        /\ v # backlight
        /\ backlight' = v
    /\ env' = [env EXCEPT !.ext = @ - 1]
    /\ last' = "ext"
    /\ UNCHANGED ctlvars

ProcessOk ==
    \/ MainOk
    \/ ReadBlightOk
    \/ ReadLightOk
    \/ Evaluate
    \/ RampWriteOk
    \/ RampSleep
    \/ PollSleep

NextCalm ==
    \/ MainOk
    \/ ReadBlightOk
    \/ ReadLightOk
    \/ Evaluate
    \/ RampWriteOk
    \/ RampSleep
    \/ PollSleep
    \/ ExternalSome

SpecCalm == InitCalm /\ [][NextCalm]_vars /\ WF_vars(ProcessOk)

----------------------------------------------------------------------------
(* Properties *)

Evaluated == last = "eval"

RampReturned == last = "rampSleep" /\ pc = "readBlight"

ScenarioA ==
    /\ p.min = 40 /\ p.max = 100 /\ p.ratio = 60 /\ p.sens = 2
    /\ inlight = 3000

\* C1 (as stated): the target is clamp(percent*(max-min)/100 + min, min, max)
\* with percent = clamp(a*100/(ratio*100), 0, 100); in scenario A the target
\* is 70 and a cycle that read brightness 70 goes to sleep without a write.
C1_SpanMapping ==
    Evaluated =>
        /\ nblight = Clamp((Clamp((inlight * 100) \div (p.ratio * 100), 0, 100)
                            * (p.max - p.min)) \div 100 + p.min, p.min, p.max)
        /\ ScenarioA => nblight = 70 /\ (blight = 70 => pc = "sleep")

\* C1 (amended): the target is clamp(percent*max/100 + min, min, max) with
\* percent = clamp(a*100/(ratio*100), 0, 100), a being the value the loop
\* feeds to the mapping; in scenario A the target is 90 and a cycle that
\* read brightness 70 starts a ramp unless dryrun is set.
C1_Mapping ==
    Evaluated =>
        /\ nblight = Clamp((Clamp((inlight * 100) \div (p.ratio * 100), 0, 100)
                            * p.max) \div 100 + p.min, p.min, p.max)
        /\ ScenarioA => /\ nblight = 90
                        /\ (blight = 70 /\ ~p.dryrun) => pc = "ramp"

C1_Witness ==
    Evaluated /\ ScenarioA /\ blight = 70 /\ ~p.dryrun /\ pc = "ramp" /\ set = 90

\* C2: the value fed to the mapping is the arithmetic mean of the samples in
\* the window (their sum divided by probes).
C2_Mean ==
    Evaluated => inlight = SumSeq(inlights) \div p.probes

\* C3: a cycle applies its target exactly when abs(target - current) >=
\* sensitivity or current < min, current being the brightness read in that
\* cycle; otherwise it goes to sleep.
C3_Gate ==
    Evaluated =>
        ((pc # "sleep") <=> (Abs(nblight - blight) >= p.sens \/ blight < p.min))

C3_Witness ==
    /\ Evaluated
    /\ blight < p.min
    /\ Abs(nblight - blight) < p.sens
    /\ pc # "sleep"

\* C4: a ramp that started with current # target ends with its last written
\* level equal to target, and no level written lies beyond target.
C4_RampEndsAtTarget ==
    /\ \A i \in DOMAIN ramped :
        /\ from < set => ramped[i] <= set
        /\ from > set => ramped[i] >= set
    /\ RampReturned => ramped # <<>> /\ ramped[Len(ramped)] = set

C4_Witness ==
    /\ RampReturned
    /\ Len(ramped) >= 2
    /\ Abs(from - set) % p.grad # 0
    /\ ramped[Len(ramped)] = set

\* C5: every level a ramp writes differs from the level before it (the first
\* from current) by at least 1 and at most rampStep, always towards target.
C5_RampSteps ==
    \A i \in DOMAIN ramped :
        LET prev == IF i = 1 THEN from ELSE ramped[i - 1]
            d == ramped[i] - prev
        IN  /\ Abs(d) >= 1
            /\ Abs(d) <= p.grad
            /\ from < set => d > 0
            /\ from > set => d < 0

C5_Witness ==
    /\ Len(ramped) >= 2
    /\ from > set
    /\ p.grad >= 2
    /\ ramped[1] = from - p.grad

\* C6: the target computed from a window of samples >= 0 lies in [min, max].
C6_TargetInRange ==
    Evaluated => p.min <= nblight /\ nblight <= p.max

C6_Witness ==
    /\ Evaluated
    /\ 0 < p.min /\ p.min < p.max
    /\ (Percent(inlight, p.ratio) * p.max) \div granularity + p.min > p.max
    /\ nblight = p.max

\* C7 (as stated): every level the controller writes, intermediate ramp
\* levels included, is in [min, max].
C7_WritesInRange ==
    \A i \in DOMAIN ramped : p.min <= ramped[i] /\ ramped[i] <= p.max

\* C7 (amended): every level written is in [min(current, min), max(current,
\* max)], current being the brightness read at the start of the cycle; when
\* current is in [min, max] so is every level written, and the last level of
\* a completed ramp is in [min, max].
C7_WritesBetween ==
    /\ \A i \in DOMAIN ramped :
        /\ Min2(from, p.min) <= ramped[i]
        /\ ramped[i] <= Max2(from, p.max)
        /\ (p.min <= from /\ from <= p.max) => (p.min <= ramped[i] /\ ramped[i] <= p.max)
    /\ RampReturned => p.min <= ramped[Len(ramped)] /\ ramped[Len(ramped)] <= p.max

C7_Witness ==
    /\ RampReturned
    /\ Len(ramped) >= 2
    /\ ramped[1] < p.min
    /\ ramped[Len(ramped)] >= p.min

\* C8: with dryrun set the controller never writes the brightness file; the
\* file changes only by the steps of other actors.
C8_DryRunNoWrite ==
    /\ [](p.dryrun => (last # "write" /\ ramped = <<>>))
    /\ [][(p.dryrun /\ backlight' # backlight) => last' = "ext"]_vars

C8_Witness ==
    /\ p.dryrun
    /\ Evaluated
    /\ ShouldApply(blight, nblight, p.sens, p.min)
    /\ blight # nblight
    /\ pc = "readBlight"

\* C9: after a failed read or a failed write the process is gone: it reads,
\* writes and sleeps no more, and no further ramp level is written.
C9_FailFast ==
    /\ [](failed => pc = "fatal")
    /\ [][failed => (UNCHANGED ctlvars /\ last' = "ext")]_vars

C9_Witness ==
    /\ failed
    /\ last = "write"
    /\ ramped # <<>>
    /\ curr # set
    /\ pc = "fatal"

\* C10: in the first cycle nothing is evaluated, written or slept before
\* probes samples have been pushed, and the first evaluation follows the
\* probes-th push.
C10_WarmUp ==
    /\ (cycle <= 1 /\ cyclePushes < p.probes) =>
        /\ last \notin {"eval", "write", "rampSleep", "pollSleep"}
        /\ pc \notin {"eval", "ramp", "rampSleep", "sleep"}
    /\ (cycle = 1 /\ (pc = "eval" \/ Evaluated)) => cyclePushes = p.probes

C10_Witness ==
    /\ cycle = 1
    /\ pc = "eval"
    /\ p.probes >= 2
    /\ cyclePushes = p.probes

ConstLight == Cardinality(env.samples) = 1

\* the target of a window filled with the one value a constant sensor produces
SteadyTarget ==
    LET v == CHOOSE x \in env.samples : TRUE
    IN  Target(WindowValue([i \in 1..p.probes |-> v]), p.min, p.max, p.ratio)

BetweenRamps == pc \in {"readBlight", "readLight", "eval", "sleep"}

AtTarget == BetweenRamps /\ backlight = SteadyTarget

NoOtherWriter == env.extTotal = 0

\* C11: with a constant sensor value, no other writer, no failure and dryrun
\* off, a completed ramp leaves the device at the target, and from a cycle
\* boundary with the device at the target no step writes the device again.
C11_NoWriteAtTarget ==
    /\ []((NoOtherWriter /\ ConstLight /\ ~p.dryrun /\ RampReturned) => AtTarget)
    /\ [][(NoOtherWriter /\ ConstLight /\ ~p.dryrun /\ AtTarget) =>
            (AtTarget' /\ last' # "write" /\ backlight' = backlight)]_vars

C11_Witness ==
    /\ NoOtherWriter /\ ConstLight /\ ~p.dryrun
    /\ ramped # <<>>
    /\ cycle >= 2
    /\ AtTarget
    /\ pc = "sleep"

\* C12: with dryrun off, no failure and no other writer, a cycle that read a
\* brightness below min ramps to its target whatever the difference, and a
\* backlight below min eventually is at least min.
C12_FloorReached ==
    /\ []((NoOtherWriter /\ ~p.dryrun /\ Evaluated /\ blight < p.min) =>
            (pc = "ramp" /\ from = blight /\ set = nblight /\ set >= p.min))
    /\ ((NoOtherWriter /\ ~p.dryrun /\ backlight < p.min) ~> (backlight >= p.min))

C12_Witness ==
    /\ NoOtherWriter /\ ~p.dryrun
    /\ RampReturned
    /\ cycle = 1
    /\ from < p.min
    /\ Abs(set - from) < p.sens
    /\ backlight >= p.min

\* C13: for a fixed config the target does not decrease when the value fed
\* to the mapping increases.
C13_Monotone ==
    Evaluated =>
        \A a \in 0..inlight : Target(a, p.min, p.max, p.ratio) <= nblight

C13_Witness ==
    /\ Evaluated
    /\ inlight > 0
    /\ p.min < nblight /\ nblight < p.max
    /\ Target(0, p.min, p.max, p.ratio) < nblight

\* the window read from its oldest slot to its newest
RingOrder(w, idx) == [i \in 1..Len(w) |-> w[((idx + i - 1) % Len(w)) + 1]]

\* C14: once probes samples have been pushed the window holds exactly the
\* last probes samples pushed, each push replacing the oldest one, and only
\* a push changes the window (one slot of it).
C14_Ring ==
    /\ [](Len(hist) = p.probes => RingOrder(inlights, inIndex) = hist)
    /\ [][(pc # "main" /\ inlights' # inlights) =>
            /\ last' = "readLight"
            /\ Cardinality({i \in DOMAIN inlights : inlights'[i] # inlights[i]}) = 1]_vars

C14_Witness ==
    /\ hist = <<20, 30, 40, 50>>
    /\ inlights = <<50, 20, 30, 40>>
    /\ inIndex = 1
    /\ cycle >= 2

\* C15: with dryrun set, a cycle that decides to apply goes to the poll sleep
\* like a cycle that decides not to.
C15_DryRunSleeps ==
    (p.dryrun /\ Evaluated) => pc = "sleep"

\* C16: with dryrun off, the brightness is read again after a poll sleep
\* exactly when the cycle decided not to apply; after a decision to apply
\* (a completed ramp included) it is read again with no poll sleep.
C16_SleepIffNoApply ==
    [][(~p.dryrun /\ pc \notin {"main", "readBlight"} /\ pc' = "readBlight") =>
        /\ last' \in {"pollSleep", "eval", "rampSleep"}
        /\ (last' = "pollSleep") <=>
                ~(Abs(nblight' - blight') >= p.sens \/ blight' < p.min)]_vars

C16_Witness ==
    /\ ~p.dryrun
    /\ RampReturned
    /\ cycle >= 2
    /\ pauses = Len(ramped)
    /\ Abs(nblight - blight) >= p.sens

\* C17: once the window is warm, a cycle pushes exactly one sample before it
\* evaluates.
C17_OnePushPerCycle ==
    (cycle >= 2 /\ pc = "eval") => cyclePushes = 1

Settled ==
    /\ backlight >= p.min
    /\ Abs(SteadyTarget - backlight) < p.sens
    /\ pc \notin {"ramp", "rampSleep"}

\* C18 (as stated): a cycle decides and ramps from the brightness it read
\* itself, and with a constant sensor value, sensitivity >= 1 and other
\* writers that stop, the device ends up at least min and closer than
\* sensitivity to the target, for good and without further writes.
C18_Settles ==
    /\ [][(last' = "readBlight" /\ pc' = "readLight") => blight' = backlight]_vars
    /\ []((Evaluated /\ pc = "ramp") => (from = blight /\ curr = blight))
    /\ (ConstLight /\ p.sens >= 1) => <>[]Settled

\* C18 (amended): the same with dryrun off.
C18_SettlesUnlessDryRun ==
    /\ [][(last' = "readBlight" /\ pc' = "readLight") => blight' = backlight]_vars
    /\ []((Evaluated /\ pc = "ramp") => (from = blight /\ curr = blight))
    /\ (ConstLight /\ p.sens >= 1 /\ ~p.dryrun) => <>[]Settled

C18_Witness ==
    /\ ConstLight /\ p.sens >= 1 /\ ~p.dryrun
    /\ env.extTotal >= 1 /\ env.ext = 0
    /\ last = "pollSleep"
    /\ cycle >= 2
    /\ ramped # <<>>
    /\ Settled

CeilDiv(a, b) == (a + b - 1) \div b

\* C19: a ramp ends, after exactly ceil(abs(target - current) / rampStep)
\* writes, each followed by one pause; 40 to 70 by 5 writes 45, 50, 55, 60,
\* 65, 70, and current = target writes nothing and pauses not at all.
C19_RampLength ==
    /\ [](Len(ramped) <= CeilDiv(Abs(set - from), p.grad))
    /\ [](RampReturned =>
            /\ Len(ramped) = CeilDiv(Abs(set - from), p.grad)
            /\ pauses = Len(ramped))
    /\ []((RampReturned /\ from = 40 /\ set = 70 /\ p.grad = 5) =>
            ramped = <<45, 50, 55, 60, 65, 70>>)
    /\ []((~p.dryrun /\ Evaluated /\ pc = "readBlight") =>
            (from = set /\ ramped = <<>> /\ pauses = 0))
    /\ (pc = "ramp" ~> pc = "readBlight")

C19_Witness ==
    /\ RampReturned
    /\ from = 40 /\ set = 70 /\ p.grad = 5
    /\ ramped = <<45, 50, 55, 60, 65, 70>>
    /\ pauses = 6

\* the k-th level of a ramp from the brightness read to the target
RampLevelAt(k) ==
    IF from < set THEN Min2(from + k * p.grad, set) ELSE Max2(from - k * p.grad, set)

\* C20: a ramp does not read the device: its k-th level follows from the
\* brightness read at the start of the cycle, the target and rampStep; each
\* write replaces whatever the device holds, and the last write leaves the
\* device at the target.
C20_RampIgnoresDevice ==
    /\ [](\A k \in DOMAIN ramped : ramped[k] = RampLevelAt(k))
    /\ [](pc \in {"ramp", "rampSleep"} => from = blight)
    /\ []((pc = "rampSleep" /\ last = "write") =>
            /\ backlight = ramped[Len(ramped)]
            /\ curr = set => backlight = set)
    /\ [][(pc \in {"ramp", "rampSleep"}) => (blight' = blight)]_vars

C20_Witness ==
    /\ clobbered
    /\ pc = "rampSleep" /\ last = "write"
    /\ Len(ramped) >= 2
    /\ curr = set
    /\ backlight = set

====
